---------------------------- MODULE Spec2Model ----------------------------
(***************************************************************************)
(* A model of the BinaryClassEDA session of src/models/processing.py and   *)
(* of the standalone plotter of src/models/ploting.py.                      *)
(*                                                                         *)
(* The pandas table is kept as what the code reads of it:                  *)
(*   data.columns  one record per column: its name, its storage dtype and  *)
(*                 the distinct entries of the column (Series.unique());   *)
(*   data.counts   for the plotted column, the number of rows holding each *)
(*                 entry in the positive (target 1) and the negative       *)
(*                 (target 0) group.                                       *)
(* An entry is a record [nan, v]: nan marks a missing value, v is the      *)
(* value (a number of a numeric column, a string of a text column).        *)
(***************************************************************************)
EXTENDS Integers, Sequences, FiniteSets, TLC

VARIABLES
    data,          \* self.data
    id_column,     \* the id_column argument / self.id_column
    column_types,  \* self.column_types: bucket name -> list of column names
    pc,            \* "new": not constructed, "ready": constructed, "failed"
    outcome,       \* exception raised by the last call, "none" if it returned
    chart          \* what the last plot call drew for the plotted column

vars == <<data, id_column, column_types, pc, outcome, chart>>

(***************************************************************************)
(* Bounds of the model.                                                    *)
(***************************************************************************)
\* Largest number of distinct non-missing values of a classified column.
MaxUnique == 16
\* Largest total number of names listed over all buckets while editing.
MaxListed == 3
\* Largest number of rows, in each target group, holding the first value
\* of a plotted column, and holding each of its other entries.
MaxMajor == 10
MaxMinor == 1

(***************************************************************************)
(* Python values.                                                          *)
(***************************************************************************)
\* Python's None where a column or bucket name is expected; no column or
\* bucket of the modelled tables has this name.
None == "None"

Num(i) == [nan |-> FALSE, v |-> i]
\* The i-th value of a column of the given dtype: a string of a text column.
Val(dtype, i) == [nan |-> FALSE, v |-> IF dtype = "object" THEN ToString(i) ELSE i]
\* The missing entry (NaN, None, NaT) of a column of the given dtype.
Missing(dtype) == [nan |-> TRUE, v |-> IF dtype = "object" THEN "" ELSE 0]

TargetName == "TARGET"
IdName == "SK_ID_CURR"

\* Storage dtypes of the columns of a table.  pandas stores a date/time
\* column with its unit, "datetime64[ns]"; "int32" stands for every other
\* storage type.
Dtypes == {"datetime64[ns]", "bool", "object", "float64", "int64", "int32"}

NoChart == [layout |-> "none", major |-> <<>>, minor |-> <<>>]
NoTypes == [k \in {} |-> <<>>]

(***************************************************************************)
(* Helpers on sequences.                                                   *)
(***************************************************************************)
Range(s) == {s[i] : i \in DOMAIN s}

\* list.remove(x): drops the first occurrence of x.
RemoveFirst(s, x) ==
    LET i == CHOOSE j \in DOMAIN s : s[j] = x /\ \A k \in 1..(j - 1) : s[k] # x
    IN  SubSeq(s, 1, i - 1) \o SubSeq(s, i + 1, Len(s))

ColumnNames(d) == [i \in DOMAIN d.columns |-> d.columns[i].name]

Column(d, name) ==
    d.columns[CHOOSE i \in DOMAIN d.columns : d.columns[i].name = name]

(***************************************************************************)
(* BinaryClassEDA._is_valid_target                                         *)
(***************************************************************************)
IsValidTarget(d) == Column(d, TargetName).values = {Num(1), Num(0)}

(***************************************************************************)
(* BinaryClassEDA._get_column_types                                        *)
(***************************************************************************)
\* pd.notna(data[column].unique()).sum()
NUnique(col) == Cardinality({e \in col.values : ~e.nan})

\* The bucket the if-chain of the loop body appends the column to;
\* "skip" is the `continue` of the first branch.
BucketOf(col) ==
    LET n_unique == NUnique(col)
    IN  IF col.dtype = "datetime64" THEN "skip"
        ELSE IF col.dtype = "bool" THEN "Binary"
        ELSE IF col.dtype = "object"
             THEN IF n_unique = 2 THEN "Binary" ELSE "Nominal"
        ELSE IF col.dtype \in {"float64", "int64"}
             THEN IF n_unique = 2 THEN "Binary"
                  ELSE IF 3 <= n_unique /\ n_unique <= 15 THEN "Unknown"
                  ELSE "Continuous"
        ELSE "Unknown"

\* all_columns = list(data.columns); for col in exclude_col: remove(col).
\* list.remove raises ValueError for a name that is not in the list.
RECURSIVE RemoveAll(_, _)
RemoveAll(all_columns, exclude_col) ==
    IF exclude_col = <<>> THEN [ok |-> TRUE, cols |-> all_columns]
    ELSE IF Head(exclude_col) \notin Range(all_columns)
         THEN [ok |-> FALSE, cols |-> all_columns]
    ELSE RemoveAll(RemoveFirst(all_columns, Head(exclude_col)), Tail(exclude_col))

\* The four lists the loop fills, each in the order of all_columns.
Classify(d, all_columns) ==
    [b \in {"Continuous", "Binary", "Nominal", "Unknown"} |->
        SelectSeq(all_columns, LAMBDA c : BucketOf(Column(d, c)) = b)]

GetColumnTypes(d, exclude_col) ==
    LET rem == RemoveAll(ColumnNames(d), exclude_col)
    IN  IF rem.ok
        THEN [outcome |-> "none", column_types |-> Classify(d, rem.cols)]
        ELSE [outcome |-> "ValueError", column_types |-> NoTypes]

(***************************************************************************)
(* BinaryClassEDA.__init__                                                 *)
(***************************************************************************)
NewSession(d, id) ==
    IF ~IsValidTarget(d)
    THEN [outcome |-> "AssertionError", column_types |-> NoTypes]
    ELSE GetColumnTypes(d, <<TargetName, id>>)

Construct ==
    /\ pc = "new"
    /\ LET r == NewSession(data, id_column)
       IN  /\ outcome' = r.outcome
           /\ column_types' = r.column_types
           /\ pc' = IF r.outcome = "none" THEN "ready" ELSE "failed"
    /\ UNCHANGED <<data, id_column, chart>>

(***************************************************************************)
(* BinaryClassEDA.count_column_dtypes                                      *)
(***************************************************************************)
CountColumnDtypes(ct) == [key \in DOMAIN ct |-> Len(ct[key])]

RECURSIVE SumOver(_, _)
SumOver(f, keys) ==
    IF keys = {} THEN 0
    ELSE LET k == CHOOSE x \in keys : TRUE
         IN  f[k] + SumOver(f, keys \ {k})

TotalListed(ct) == SumOver(CountColumnDtypes(ct), DOMAIN ct)

(***************************************************************************)
(* BinaryClassEDA.change_dtype_group                                       *)
(* change_columns is [kind, items]: kind "none" for None, "list" for a     *)
(* list, "tuple" for a value that is not a list.                           *)
(***************************************************************************)
\* [c for c in column_types[key] if c not in change_columns], every key
Pruned(ct, items) ==
    [key \in DOMAIN ct |-> SelectSeq(ct[key], LAMBDA c : c \notin Range(items))]

MoveWholeKeepSource(ct, new_dtype, old_dtype, on_delete) ==
    IF new_dtype \notin DOMAIN ct \/ old_dtype \notin DOMAIN ct
    THEN [outcome |-> "KeyError", column_types |-> ct]
    ELSE [outcome |-> "none",
          column_types |-> [ct EXCEPT ![new_dtype] = @ \o ct[old_dtype]]]
\* lines 195-198: the whole-bucket form
MoveWhole(ct, new_dtype, old_dtype, on_delete) ==
    IF new_dtype \notin DOMAIN ct \/ old_dtype \notin DOMAIN ct
    THEN [outcome |-> "KeyError", column_types |-> ct]
    ELSE LET extended == [ct EXCEPT ![new_dtype] = @ \o ct[old_dtype]]
         IN  [outcome |-> "none",
              column_types |-> IF on_delete
                               THEN [extended EXCEPT ![old_dtype] = <<>>]
                               ELSE extended]

MoveListNoPrune(ct, new_dtype, change_columns, on_delete) ==
    IF change_columns.kind # "list"
    THEN [outcome |-> "AssertionError", column_types |-> ct]
    ELSE IF new_dtype \notin DOMAIN ct
         THEN [outcome |-> "KeyError", column_types |-> ct]
         ELSE [outcome |-> "none",
               column_types |->
                   [ct EXCEPT ![new_dtype] = @ \o change_columns.items]]
\* lines 201-209: the explicit-list form.  The pruning loop runs before
\* column_types[new_dtype] is looked up, and it assigns into the session's
\* own dict.
MoveList(ct, new_dtype, change_columns, on_delete) ==
    IF change_columns.kind # "list"
    THEN [outcome |-> "AssertionError", column_types |-> ct]
    ELSE LET pruned == IF on_delete THEN Pruned(ct, change_columns.items) ELSE ct
         IN  IF new_dtype \notin DOMAIN ct
             THEN [outcome |-> "KeyError", column_types |-> pruned]
             ELSE [outcome |-> "none",
                   column_types |->
                       [pruned EXCEPT ![new_dtype] = @ \o change_columns.items]]

ChangeResultBothAsserts(ct, new_dtype, old_dtype, change_columns, on_delete) ==
    IF change_columns.kind = "none"
    THEN IF old_dtype = None
         THEN [outcome |-> "AssertionError", column_types |-> ct]
         ELSE MoveWhole(ct, new_dtype, old_dtype, on_delete)
    ELSE IF old_dtype = None
         THEN MoveList(ct, new_dtype, change_columns, on_delete)
         ELSE [outcome |-> "AssertionError", column_types |-> ct]
ChangeResult(ct, new_dtype, old_dtype, change_columns, on_delete) ==
    IF change_columns.kind = "none"
    THEN IF old_dtype = None
         THEN [outcome |-> "AssertionError", column_types |-> ct]
         ELSE MoveWhole(ct, new_dtype, old_dtype, on_delete)
    ELSE IF old_dtype = None
         THEN MoveList(ct, new_dtype, change_columns, on_delete)
         ELSE [outcome |-> "AttributeError", column_types |-> ct]

ChangeDtypeGroup(new_dtype, old_dtype, change_columns, on_delete) ==
    /\ pc = "ready"
    /\ LET r == ChangeResult(column_types, new_dtype, old_dtype,
                             change_columns, on_delete)
       IN  /\ TotalListed(r.column_types) <= MaxListed
           /\ column_types' = r.column_types
           /\ outcome' = r.outcome
    /\ UNCHANGED <<data, id_column, pc, chart>>

(***************************************************************************)
(* BinaryClassEDA.create_dtype_group                                       *)
(***************************************************************************)
CreateResult(ct, group_name) ==
    [key \in DOMAIN ct \cup {group_name} |->
        IF key = group_name THEN <<>> ELSE ct[key]]

CreateDtypeGroup(group_name) ==
    /\ pc = "ready"
    /\ column_types' = CreateResult(column_types, group_name)
    /\ outcome' = "none"
    /\ UNCHANGED <<data, id_column, pc, chart>>

(***************************************************************************)
(* Relative frequencies are 64-bit floats (value_counts(normalize=True)    *)
(* divides the counts by their sum).  A float is [m, e]: the value         *)
(* m * 2^e with m a 53-bit integer, 2^52 <= m < 2^53, kept as four digits  *)
(* of base 2^15, lowest first.  Every operation rounds to nearest, ties to *)
(* even, as the hardware does.                                             *)
(***************************************************************************)
Base == 2^15

Digit(p, i) == IF i \in DOMAIN p THEN p[i] ELSE 0

\* p * b + carry, for a digit b
RECURSIVE MulDigit(_, _, _)
MulDigit(p, b, carry) ==
    IF p = <<>> THEN (IF carry = 0 THEN <<>> ELSE <<carry>>)
    ELSE LET t == Head(p) * b + carry
         IN  <<t % Base>> \o MulDigit(Tail(p), b, t \div Base)

\* p + q + carry
RECURSIVE Add(_, _, _)
Add(p, q, carry) ==
    IF p = <<>> /\ q = <<>> THEN (IF carry = 0 THEN <<>> ELSE <<carry>>)
    ELSE LET t == Digit(p, 1) + Digit(q, 1) + carry
         IN  <<t % Base>>
             \o Add(IF p = <<>> THEN p ELSE Tail(p),
                    IF q = <<>> THEN q ELSE Tail(q), t \div Base)

\* p * q
RECURSIVE Mul(_, _)
Mul(p, q) ==
    IF q = <<>> THEN <<>>
    ELSE Add(MulDigit(p, Head(q), 0), <<0>> \o Mul(p, Tail(q)), 0)

RECURSIVE Trim(_)
Trim(p) ==
    IF p # <<>> /\ p[Len(p)] = 0 THEN Trim(SubSeq(p, 1, Len(p) - 1)) ELSE p

\* Number of bits of p > 0
BitLen(p) ==
    LET top == p[Len(p)]
    IN  15 * (Len(p) - 1) + CHOOSE n \in 1..31 : 2^(n - 1) <= top /\ top < 2^n

\* The nearest 53-bit float to p * 2^e, for p of 53 bits or more
RoundToDouble(p, e) ==
    LET k == BitLen(p) - 53
        a == k \div 15
        b == k % 15
        q == [i \in 1..4 |->
                (Digit(p, i + a) \div 2^b) + (Digit(p, i + a + 1) % 2^b) * 2^(15 - b)]
        j == k - 1
        guard == k > 0 /\ (Digit(p, (j \div 15) + 1) \div 2^(j % 15)) % 2 = 1
        sticky == k > 0 /\ (\/ Digit(p, (j \div 15) + 1) % 2^(j % 15) # 0
                            \/ \E i \in 1..(j \div 15) : Digit(p, i) # 0)
        r == IF guard /\ (sticky \/ q[1] % 2 = 1) THEN Add(q, <<1>>, 0) ELSE q
    IN  IF r[4] = 2^8 THEN [m |-> <<0, 0, 0, 2^7>>, e |-> e + k + 1]
        ELSE [m |-> r, e |-> e + k]

\* c / n for counts 1 <= c <= n: the quotient is carried to 53 bits, a
\* guard bit and a sticky bit, then rounded.
FDiv(c, n) ==
    LET d == CHOOSE x \in 0..16 : c * 2^x >= n /\ (x = 0 \/ c * 2^(x - 1) < n)
        t4 == c * 2^(d + 7)
        q4 == t4 \div n
        t3 == (t4 % n) * Base
        q3 == t3 \div n
        t2 == (t3 % n) * Base
        q2 == t2 \div n
        t1 == (t2 % n) * Base
        q1 == t1 \div n
        r1 == t1 % n
        g == IF 2 * r1 >= n THEN 1 ELSE 0
        st == IF 2 * r1 - g * n # 0 THEN 1 ELSE 0
    IN  RoundToDouble(MulDigit(<<q1, q2, q3, q4>>, 4, 2 * g + st), -(52 + d) - 2)

\* 10 * x
FTimes10(x) == RoundToDouble(Trim(MulDigit(x.m, 10, 0)), x.e)

\* 0.1 * x, the literal 0.1 being the float 7205759403792794 * 2^-56
Tenth == <<6554, 13107, 26214, 204>>
FTimesTenth(x) == RoundToDouble(Trim(Mul(x.m, Tenth)), x.e - 56)

\* x > y
FGreater(x, y) ==
    \/ x.e > y.e
    \/ /\ x.e = y.e
       /\ \E i \in 1..4 : /\ x.m[i] > y.m[i]
                           /\ \A h \in (i + 1)..4 : x.m[h] = y.m[h]

(***************************************************************************)
(* The conversions both plotters apply to the plotted column, in place.    *)
(***************************************************************************)
Str(text) == [nan |-> FALSE, v |-> text]

\* Series.astype('str') of a numeric column: str(1.0) is '1.0', str(nan) 'nan'.
AsTypeStr(e) == IF e.nan THEN Str("nan") ELSE Str(ToString(e.v) \o ".0")
\* Series.fillna('NaN')
FillNa(e) == IF e.nan THEN Str("NaN") ELSE e

\* The counts of a column whose entries were mapped by f.
Converted(counts, f) ==
    [l \in {f[e] : e \in DOMAIN counts} |->
        LET from == {e \in DOMAIN counts : f[e] = l}
        IN  [pos |-> SumOver([e \in from |-> counts[e].pos], from),
             neg |-> SumOver([e \in from |-> counts[e].neg], from)]]

RowsOf(counts, e, group) ==
    CASE group = "pos" -> counts[e].pos
      [] group = "neg" -> counts[e].neg
      [] OTHER -> counts[e].pos + counts[e].neg

\* Series.value_counts(dropna=...) of the rows of a group: the count of
\* every entry that occurs in it.  normalize=True divides by Total.
ValueCounts(counts, group, dropna) ==
    [e \in {x \in DOMAIN counts : RowsOf(counts, x, group) > 0 /\ ~(dropna /\ x.nan)}
        |-> RowsOf(counts, e, group)]
Total(dist) == SumOver(dist, DOMAIN dist)

\* The orders value_counts can give the index: most frequent first, values
\* of the same count in any order.
SortedLabels(dist) ==
    {order \in [1..Cardinality(DOMAIN dist) -> DOMAIN dist] :
        /\ \A i, j \in DOMAIN order : i # j => order[i] # order[j]
        /\ \A i, j \in DOMAIN order : i < j => dist[order[i]] >= dist[order[j]]}

(***************************************************************************)
(* The body of the per-column loop, from the three distributions on: the   *)
(* same in plot_categorical_dist_by_target (lines 319-376) and in          *)
(* plot_categorical_bars (lines 49-99).                                    *)
(***************************************************************************)
\* dist[labels] for a list of labels raises KeyError when a label is not
\* in the index of dist.
HasAll(dist, labels) == Range(labels) \subseteq DOMAIN dist

DrawColumn(full_dist, positive_dist, negative_dist, all_labels) ==
    IF DOMAIN full_dist = {}
    THEN [outcome |-> "ValueError", chart |-> NoChart]
    ELSE
    LET n == Total(full_dist)
        freq == [l \in DOMAIN full_dist |-> FDiv(full_dist[l], n)]
        max == freq[CHOOSE l \in DOMAIN freq :
                        \A o \in DOMAIN freq : ~FGreater(freq[o], freq[l])]
        min == freq[CHOOSE l \in DOMAIN freq :
                        \A o \in DOMAIN freq : ~FGreater(freq[l], freq[o])]
    IN  IF FGreater(max, FTimes10(min))
        THEN LET major_labels ==
                     SelectSeq(all_labels,
                               LAMBDA l : FGreater(freq[l], FTimesTenth(max)))
                 minor_labels ==
                     SubSeq(all_labels, Len(major_labels) + 1, Len(all_labels))
             IN  IF /\ HasAll(positive_dist, major_labels)
                    /\ HasAll(negative_dist, major_labels)
                    /\ HasAll(positive_dist, minor_labels)
                    /\ HasAll(negative_dist, minor_labels)
                 THEN [outcome |-> "none",
                       chart |-> [layout |-> "two", major |-> major_labels,
                                  minor |-> minor_labels]]
                 ELSE [outcome |-> "KeyError", chart |-> NoChart]
        ELSE [outcome |-> "none",
              chart |-> [layout |-> "one", major |-> <<>>, minor |-> <<>>]]

PlotName == "CAT"

\* data[column] = converted column
WithColumn(d, counts) ==
    [columns |-> [i \in DOMAIN d.columns |->
                    IF d.columns[i].name = PlotName
                    THEN [name |-> PlotName, dtype |-> "object",
                          values |-> DOMAIN counts]
                    ELSE d.columns[i]],
     counts |-> counts]

Plot(counts, dropna) ==
    \E all_labels \in SortedLabels(ValueCounts(counts, "all", dropna)) :
        LET r == DrawColumn(ValueCounts(counts, "all", dropna),
                            ValueCounts(counts, "pos", dropna),
                            ValueCounts(counts, "neg", dropna), all_labels)
        IN  /\ outcome' = r.outcome
            /\ chart' = r.chart
            /\ data' = WithColumn(data, counts)
            /\ UNCHANGED <<id_column, column_types, pc>>

(***************************************************************************)
(* BinaryClassEDA.plot_categorical_dist_by_target(plot_columns=['CAT'])    *)
(***************************************************************************)
PlotCategoricalDistByTarget ==
    /\ pc = "ready"
    /\ LET as_str == IF Column(data, PlotName).dtype # "object"
                     THEN Converted(data.counts,
                                    [e \in DOMAIN data.counts |-> AsTypeStr(e)])
                     ELSE data.counts
       IN  Plot(Converted(as_str, [e \in DOMAIN as_str |-> FillNa(e)]), FALSE)

(***************************************************************************)
(* plot_categorical_bars(['CAT'], data)                                    *)
(***************************************************************************)
PlotCategoricalBars ==
    /\ pc = "ready"
    /\ LET as_str == IF Column(data, PlotName).dtype # "object"
                     THEN Converted(data.counts,
                                    [e \in DOMAIN data.counts |-> AsTypeStr(e)])
                     ELSE data.counts
       IN  Plot(as_str, TRUE)

(***************************************************************************)
(* Tables.                                                                 *)
(***************************************************************************)
\* Dtypes whose columns can hold a missing entry.
Nullable == {"datetime64[ns]", "object", "float64"}

\* A column with k distinct non-missing values and, with hasnan, missing rows.
MakeColumn(name, dtype, k, hasnan) ==
    [name |-> name, dtype |-> dtype,
     values |-> {Val(dtype, i) : i \in 1..k}
                \cup (IF hasnan THEN {Missing(dtype)} ELSE {})]

ColumnsNamed(name) ==
    {MakeColumn(name, dtype, k, hasnan) :
        dtype \in Dtypes, k \in 0..MaxUnique, hasnan \in BOOLEAN}
    \ {col \in {MakeColumn(name, dtype, k, hasnan) :
                   dtype \in Dtypes, k \in 0..MaxUnique, hasnan \in BOOLEAN} :
          \/ col.dtype \notin Nullable /\ Missing(col.dtype) \in col.values
          \/ col.dtype = "bool" /\ Cardinality(col.values) > 2}

TargetColumn(values) == [name |-> TargetName, dtype |-> "float64", values |-> values]
IdColumn == [name |-> IdName, dtype |-> "int64", values |-> {Num(1), Num(2), Num(3)}]

MakeTable(target_values, c1, c2) ==
    [columns |-> <<IdColumn, TargetColumn(target_values), c1, c2>>,
     counts |-> <<>>]

\* One column for each way the classifier can go.
EditPalette(name) ==
    {MakeColumn(name, "float64", 16, TRUE), MakeColumn(name, "object", 2, FALSE),
     MakeColumn(name, "object", 3, TRUE), MakeColumn(name, "int64", 3, FALSE)}
Palette(name) ==
    {MakeColumn(name, "float64", 16, TRUE), MakeColumn(name, "object", 2, FALSE),
     MakeColumn(name, "object", 3, TRUE), MakeColumn(name, "int64", 3, FALSE),
     MakeColumn(name, "datetime64[ns]", 3, FALSE)}

\* Tables the constructor is called on: every set of target values over a
\* few feature columns, and a valid target over every pair of feature columns.
ConstructTables ==
    {MakeTable(t, c1, c2) :
        t \in SUBSET {Num(0), Num(1), Num(2), Missing("float64")},
        c1 \in Palette("c1"), c2 \in {MakeColumn("c2", "object", 2, FALSE)}}
    \cup {MakeTable({Num(0), Num(1)}, c1, c2) :
             c1 \in ColumnsNamed("c1"), c2 \in ColumnsNamed("c2")}

InitConstruct ==
    /\ data \in ConstructTables
    /\ id_column \in {None, IdName}
    /\ column_types = NoTypes
    /\ pc = "new"
    /\ outcome = "none"
    /\ chart = NoChart

SpecConstruct == InitConstruct /\ [][Construct]_vars

\* Tables of the sessions that are edited.
EditTables ==
    {MakeTable({Num(0), Num(1)}, c1, c2) :
        c1 \in EditPalette("c1"),
        c2 \in {MakeColumn("c2", "object", 2, FALSE), MakeColumn("c2", "int64", 3, FALSE)}}

\* The state after BinaryClassEDA(data, "TARGET", id_column="SK_ID_CURR").
InitEdit ==
    /\ data \in EditTables
    /\ id_column = IdName
    /\ column_types = NewSession(data, id_column).column_types
    /\ pc = "ready"
    /\ outcome = "none"
    /\ chart = NoChart

\* Arguments of the editing calls.  "Custom" is a bucket only once
\* create_dtype_group made it; "zz" is no column of the table.
NewDtypes == {"Binary", "Unknown", "Custom"}
OldDtypes == {None, "Binary", "Nominal", "Custom"}
NoColumns == [kind |-> "none", items |-> <<>>]
List(items) == [kind |-> "list", items |-> items]
ChangeColumns ==
    {NoColumns, [kind |-> "tuple", items |-> <<"c1">>], List(<<>>),
     List(<<"c1">>), List(<<"zz">>), List(<<"c2", "c1">>), List(<<"c2", "c2">>)}
GroupNames == {"Custom", "Binary"}

NextEdit ==
    \/ \E new_dtype \in NewDtypes, old_dtype \in OldDtypes,
          change_columns \in ChangeColumns, on_delete \in BOOLEAN :
          ChangeDtypeGroup(new_dtype, old_dtype, change_columns, on_delete)
    \/ \E group_name \in GroupNames : CreateDtypeGroup(group_name)

SpecEdit == InitEdit /\ [][NextEdit]_vars

\* Only calls that leave on_delete at True.
NextOnDelete ==
    \/ \E new_dtype \in NewDtypes, old_dtype \in OldDtypes,
          change_columns \in ChangeColumns :
          ChangeDtypeGroup(new_dtype, old_dtype, change_columns, TRUE)
    \/ \E group_name \in GroupNames : CreateDtypeGroup(group_name)

SpecOnDelete == InitEdit /\ [][NextOnDelete]_vars

\* Tables of the sessions that plot the column CAT: it holds up to three
\* entries, the third a missing one, each in some rows of either group;
\* the target holds both 1 and 0.
PlotDtypes == {"object", "float64"}
\* The rows of a column: those of each entry that occurs in it.
Occurring(all) == [e \in {x \in DOMAIN all : all[x].pos + all[x].neg > 0} |-> all[e]]

PlotCounts(dtype) ==
    {Occurring(all) :
        all \in {(Val(dtype, 1) :> c1) @@ (Val(dtype, 2) :> c2) @@ (Missing(dtype) :> c3) :
                    c1 \in [pos : 0..MaxMajor, neg : 0..MaxMajor],
                    c2 \in [pos : 0..MaxMinor, neg : 0..MaxMinor],
                    c3 \in [pos : 0..MaxMinor, neg : 0..MaxMinor]}}

PlotTables ==
    {[columns |-> <<IdColumn, TargetColumn({Num(0), Num(1)}),
                    [name |-> PlotName, dtype |-> t[1], values |-> DOMAIN t[2]]>>,
      counts |-> t[2]] :
        t \in {x \in UNION {{<<dtype, counts>> : counts \in PlotCounts(dtype)} :
                              dtype \in PlotDtypes} :
                  /\ \E e \in DOMAIN x[2] : x[2][e].pos > 0
                  /\ \E e \in DOMAIN x[2] : x[2][e].neg > 0}}

InitPlot ==
    /\ data \in PlotTables
    /\ id_column = IdName
    /\ column_types = NewSession(data, id_column).column_types
    /\ pc = "ready"
    /\ outcome = "none"
    /\ chart = NoChart

NextPlot == PlotCategoricalDistByTarget \/ PlotCategoricalBars

SpecPlot == InitPlot /\ [][NextPlot]_vars

(***************************************************************************)
(* Properties of the bucket set.                                           *)
(***************************************************************************)
Buckets == {"Continuous", "Binary", "Nominal", "Unknown"}
Lists == {cc \in ChangeColumns : cc.kind = "list"}
FirstTypes == NewSession(data, id_column).column_types
BucketsOf(ct, c) == {key \in DOMAIN ct : c \in Range(ct[key])}
Without(s, items) == SelectSeq(s, LAMBDA c : c \notin Range(items))
EndsWith(s, t) == Len(s) >= Len(t) /\ SubSeq(s, Len(s) - Len(t) + 1, Len(s)) = t

\* C1: under calls that all leave on_delete at True (whole-bucket and
\* explicit-list form, create_dtype_group included), no column name is
\* listed in two different buckets at the same time.
C1_NoNameInTwoBuckets ==
    \A k1 \in DOMAIN column_types, k2 \in DOMAIN column_types :
        k1 # k2 => Range(column_types[k1]) \cap Range(column_types[k2]) = {}

\* Both columns were moved into Unknown, c1 by a call after construction.
C1_Moved ==
    /\ pc = "ready" /\ outcome = "none"
    /\ "Unknown" \notin BucketsOf(FirstTypes, "c1")
    /\ {"c1", "c2"} \subseteq Range(column_types["Unknown"])

\* C2: from every bucket set, change_dtype_group(new_dtype,
\* change_columns=list, on_delete=True) with an existing new_dtype leaves
\* every listed column in new_dtype and in no other bucket, and leaves the
\* other names of every bucket as they were, in the same order.
C2_ListMoveLeavesOnlyDestination ==
    pc = "ready" =>
        \A new_dtype \in NewDtypes \cap DOMAIN column_types, cc \in Lists :
            LET r == ChangeResult(column_types, new_dtype, None, cc, TRUE)
            IN  /\ r.outcome = "none"
                /\ DOMAIN r.column_types = DOMAIN column_types
                /\ \A c \in Range(cc.items) :
                       BucketsOf(r.column_types, c) = {new_dtype}
                /\ \A key \in DOMAIN column_types :
                       Without(r.column_types[key], cc.items)
                           = Without(column_types[key], cc.items)

\* The list [c2, c1] was moved into Unknown from other buckets.
C2_ListMoved ==
    /\ pc = "ready" /\ outcome = "none"
    /\ "Unknown" \notin BucketsOf(FirstTypes, "c1")
    /\ EndsWith(column_types["Unknown"], <<"c2", "c1">>)
    /\ BucketsOf(column_types, "c1") = {"Unknown"}

\* Columns the classifier is meant to list: not the target, not the id
\* column, not of a date/time type.
Classified(d) ==
    {c \in Range(ColumnNames(d)) :
        c \notin {TargetName, IdName} /\ Column(d, c).dtype # "datetime64[ns]"}

\* C3: after any calls of create_dtype_group and of change_dtype_group with
\* on_delete=True, the counts of count_column_dtypes sum to the number of
\* classified columns.
C3_CountsSumToClassified ==
    pc = "ready" => TotalListed(column_types) = Cardinality(Classified(data))

\* The calls that supply both of old_dtype and change_columns, or neither.
BothOrNeither ==
    {call \in [new_dtype : NewDtypes, old_dtype : OldDtypes,
               change_columns : ChangeColumns, on_delete : BOOLEAN] :
        (call.old_dtype = None) <=> (call.change_columns.kind = "none")}
ResultOf(call) ==
    ChangeResult(column_types, call.new_dtype, call.old_dtype,
                 call.change_columns, call.on_delete)

\* C6 as stated: a call with both of old_dtype and change_columns, and a
\* call with neither, each raise AttributeError and change no bucket.
C6_BothOrNeitherAttributeError ==
    [][\A call \in BothOrNeither :
          ChangeDtypeGroup(call.new_dtype, call.old_dtype,
                           call.change_columns, call.on_delete)
          => outcome' = "AttributeError" /\ column_types' = column_types]_vars

\* C6 amended: from every bucket set, a call with both raises
\* AttributeError, a call with neither fails the assertion
\* (AssertionError); neither changes a bucket.
C6_BothAttributeErrorNeitherAssertion ==
    pc = "ready" =>
        \A call \in BothOrNeither :
            /\ ResultOf(call).column_types = column_types
            /\ ResultOf(call).outcome =
                   IF call.old_dtype = None THEN "AssertionError" ELSE "AttributeError"

\* A call with both parameters was made after a column had been moved.
C6_BothSupplied ==
    /\ outcome = "AttributeError"
    /\ column_types # FirstTypes

\* C7: no name that is not a column of the table is listed in a bucket (a
\* call naming one is rejected).
C7_OnlyTableColumnsListed ==
    \A key \in DOMAIN column_types :
        Range(column_types[key]) \subseteq Range(ColumnNames(data))

\* C10: a change_dtype_group call that ends in an error leaves the bucket
\* set as it was before the call.
C10_ErrorLeavesBucketsUnchanged ==
    [][outcome' # "none" => column_types' = column_types]_vars

(***************************************************************************)
(* Properties of the plotters.                                             *)
(***************************************************************************)
\* The distinct values of the plotted column that the last call counted,
\* and the number of rows holding each.
PlottedValues == {e \in DOMAIN data.counts : ~e.nan}
Rows(e) == data.counts[e].pos + data.counts[e].neg
MostRows == CHOOSE n \in {Rows(e) : e \in PlottedValues} :
                \A e \in PlottedValues : Rows(e) <= n
FewestRows == CHOOSE n \in {Rows(e) : e \in PlottedValues} :
                  \A e \in PlottedValues : Rows(e) >= n

\* C8: a drawn column has the two-chart layout exactly when its most
\* frequent value is more than 10 times as frequent as its least frequent
\* one; then the major labels (more than 0.1 of the largest frequency) and
\* the minor labels are non-empty, disjoint and together all its values.
C8_TwoChartsIffSpreadOverTen ==
    chart.layout \in {"one", "two"} =>
        /\ chart.layout = "two" <=> MostRows > 10 * FewestRows
        /\ chart.layout = "two" =>
              /\ Range(chart.major) = {e \in PlottedValues : 10 * Rows(e) > MostRows}
              /\ Range(chart.major) # {} /\ Range(chart.minor) # {}
              /\ Range(chart.major) \cap Range(chart.minor) = {}
              /\ Range(chart.major) \cup Range(chart.minor) = PlottedValues

\* C9: plotting a column completes without error when a target group holds
\* only one distinct value of it and some value of the table is not in
\* that group.
C9_OneValueGroupIsDrawn ==
    (\E group \in {"pos", "neg"} :
        /\ Cardinality({e \in PlottedValues : RowsOf(data.counts, e, group) > 0}) = 1
        /\ \E e \in PlottedValues : RowsOf(data.counts, e, group) = 0)
    => outcome = "none"

(***************************************************************************)
(* Properties of construction.                                             *)
(***************************************************************************)
\* The bucket the classification rule gives a column; "none" for a column
\* of a date/time type.
RuleBucket(col) ==
    LET n == Cardinality({e \in col.values : ~e.nan})
    IN  CASE col.dtype = "datetime64[ns]" -> "none"
          [] col.dtype = "bool" -> "Binary"
          [] col.dtype = "object" -> IF n = 2 THEN "Binary" ELSE "Nominal"
          [] col.dtype \in {"float64", "int64"} ->
                IF n = 2 THEN "Binary"
                ELSE IF n \in 3..15 THEN "Unknown" ELSE "Continuous"
          [] OTHER -> "Unknown"

\* C4: every considered column is listed in exactly the bucket the rule
\* gives, and in no bucket when its type is date/time.
C4_BucketFollowsRule ==
    pc = "ready" =>
        \A c \in {"c1", "c2"} :
            BucketsOf(column_types, c) = Buckets \cap {RuleBucket(Column(data, c))}

\* C5: construction succeeds with the four buckets computed whenever the
\* target's distinct values are exactly {0, 1}, with the id column declared
\* or omitted, and fails the assertion with no bucket set otherwise.
C5_ConstructionFollowsTarget ==
    pc # "new" =>
        IF Column(data, TargetName).values = {Num(0), Num(1)}
        THEN pc = "ready" /\ DOMAIN column_types = Buckets
        ELSE pc = "failed" /\ outcome = "AssertionError" /\ column_types = NoTypes

=============================================================================
